---- MODULE Spec2Model ----
(***************************************************************************)
(* State-machine model of the FundsManagement component                    *)
(* (src/src/app/funds/FundsManagement.tsx): the React state it owns, the   *)
(* two asynchronous operations fetchFunds and depositFunds, the two input  *)
(* handlers, the token effect and the two setTimeout followups.            *)
(*                                                                         *)
(* Strings that the code inspects character by character (the amount       *)
(* input) are sequences of one-character strings; messages built by        *)
(* template literals are sequences of their parts, so that concatenation   *)
(* is \o and the empty string '' is <<>>.  The bearer token is only tested *)
(* for emptiness and copied, so it is a plain string with "" as ''.        *)
(*                                                                         *)
(* Every handler of one render captures that render's state (closures), so *)
(* a request in flight and a pending timer carry the values their closure  *)
(* captured when the handler was invoked.                                  *)
(***************************************************************************)
EXTENDS Integers, Sequences, FiniteSets, Bags, TLC

VARIABLES
  funds,          \* useState<FundsData | null>: <<>> is null, <<obj>> a snapshot
  depositAmount,  \* useState<string>: the amount input
  loading,        \* useState<boolean>
  error,          \* useState<string>
  success,        \* useState<string>
  authToken,      \* useState<string>
  inflight,       \* bag of the fetch() requests awaiting their response
  timers,         \* pending setTimeout callbacks, in schedule order
  opened,         \* URLs the last handler handed to window.open, in order
  ev              \* the handler that ran last, with what it was given

vars == <<funds, depositAmount, loading, error, success, authToken,
          inflight, timers, opened, ev>>

----------------------------------------------------------------------------
(* Bounds of the model *)

\* requests in flight plus pending timers
MaxPending == 2

----------------------------------------------------------------------------
(* Values the environment supplies *)

Tokens == {"", "abc", "xyz"}

Amounts == { <<>>, <<"0">>, <<"5","0">>, <<"-","5">>, <<"a","b","c">> }

GatewayUrl == "https://pay.example/x"

depositMode == "NB"

FetchPath == "/funds"
DepositPath == "/funds/deposit"

----------------------------------------------------------------------------
(* JavaScript helpers *)

Digits == {"0","1","2","3","4","5","6","7","8","9"}

DigitVal(c) ==
  CASE c = "0" -> 0 [] c = "1" -> 1 [] c = "2" -> 2 [] c = "3" -> 3
    [] c = "4" -> 4 [] c = "5" -> 5 [] c = "6" -> 6 [] c = "7" -> 7
    [] c = "8" -> 8 [] c = "9" -> 9

NaN == [nan |-> TRUE, val |-> 0]

RECURSIVE SkipSpace(_)
SkipSpace(s) == IF s # <<>> /\ Head(s) = " " THEN SkipSpace(Tail(s)) ELSE s

RECURSIVE ReadDigits(_, _, _)
\* the longest prefix of digits of s, read as a decimal number after acc;
\* n counts the digits read
ReadDigits(s, acc, n) ==
  IF s # <<>> /\ Head(s) \in Digits
    THEN ReadDigits(Tail(s), 10 * acc + DigitVal(Head(s)), n + 1)
    ELSE [val |-> acc, n |-> n]

\* parseFloat on the strings of the model (integer literals with an optional
\* sign, leading blanks skipped, trailing garbage ignored): NaN when no digit
\* starts the number
parseFloat(s) ==
  LET t    == SkipSpace(s)
      neg  == t # <<>> /\ Head(t) = "-"
      u    == IF t # <<>> /\ Head(t) \in {"-", "+"} THEN Tail(t) ELSE t
      d    == ReadDigits(u, 0, 0)
  IN  IF d.n = 0 THEN NaN
      ELSE [nan |-> FALSE, val |-> IF neg THEN 0 - d.val ELSE d.val]

\* x <= 0 on numbers: every comparison with NaN is false
LeqZero(x) == ~x.nan /\ x.val <= 0

\* err instanceof Error ? err.message : 'Unknown error occurred'
ErrorDetail(err) ==
  IF err.isError THEN err.message ELSE <<"Unknown error occurred">>

\* new Error(`HTTP error! status: ${response.status}`)
HttpError(status) ==
  [isError |-> TRUE, message |-> <<"HTTP error! status: ", status>>]

RECURSIVE ParseJson(_)
\* response.json() on an object body given as its members in textual order:
\* the object holding, for every key, the value of its last member
ParseJson(members) ==
  IF members = <<>> THEN <<>>
  ELSE LET rest == ParseJson(SubSeq(members, 1, Len(members) - 1))
           m    == members[Len(members)]
       IN  [k \in (DOMAIN rest) \cup {m.k} |->
              IF k = m.k THEN m.v ELSE rest[k]]

----------------------------------------------------------------------------
(* Responses of the remote endpoint *)

\* bodies of GET /funds, each an object given by its members in textual order
FundsBodies ==
  << << [k |-> "type", v |-> "savings"],
        [k |-> "email", v |-> "a@b.c"],
        [k |-> "balance", v |-> 100] >>,
     << [k |-> "type", v |-> "savings"],
        [k |-> "balance", v |-> 500] >> >>

\* bodies of POST /funds/deposit
DepositBodies ==
  << << [k |-> "data", v |-> [url |-> GatewayUrl]] >>,
     << [k |-> "success", v |-> TRUE] >>,
     << [k |-> "success", v |-> TRUE],
        [k |-> "balance", v |-> 600] >>,
     << [k |-> "data", v |-> [url |-> ""]] >> >>

Statuses == {"500"}

\* what fetch() and response.json() can throw
Thrown ==
  { [isError |-> TRUE, message |-> <<"Failed to fetch">>],
    [isError |-> TRUE, message |-> <<"Unexpected token < in JSON">>] }

\* the ways a request can end: a 2xx response with one of the bodies, a
\* response with a non-2xx status, or an exception
Outcomes(bodies) ==
  [kind : {"ok"}, body : DOMAIN bodies]
    \cup [kind : {"status"}, status : Statuses]
    \cup [kind : {"throw"}, err : Thrown]

\* the exception the try block raises for a failing outcome
Raised(o) == IF o.kind = "status" THEN HttpError(o.status) ELSE o.err

\* responseData.data?.url, "" when undefined
DataUrl(r) ==
  IF "data" \in DOMAIN r /\ "url" \in DOMAIN r["data"] THEN r["data"].url ELSE ""

----------------------------------------------------------------------------
(* Messages *)

MissingTokenMsg == <<"Please enter your Bearer token first">>
InvalidAmountMsg == <<"Please enter a valid amount">>
FetchFailedMsg(err) == <<"Failed to fetch funds: ">> \o ErrorDetail(err)
DepositFailedMsg(err) == <<"Failed to deposit funds: ">> \o ErrorDetail(err)
RedirectingMsg == <<"Redirecting to payment gateway...">>
GatewayOpenedMsg ==
  <<"Payment gateway opened in new tab. Complete your payment there.">>
DepositedMsg(amount) == <<"Successfully deposited ₹">> \o amount

RedirectDelay == 1500
RefetchDelay == 2000

----------------------------------------------------------------------------
Init ==
  /\ funds = <<>>
  /\ depositAmount = <<>>
  /\ loading = FALSE
  /\ error = <<>>
  /\ success = <<>>
  /\ authToken = ""
  /\ inflight = EmptyBag
  /\ timers = <<>>
  /\ opened = <<>>
  /\ ev = [h |-> "mount"]

----------------------------------------------------------------------------
(* The two operations, up to their first await *)

FetchRequest(tok) ==
  [method |-> "GET", path |-> FetchPath, token |-> tok,
   amount |-> <<>>, body |-> <<>>]

DepositRequest(tok, amount) ==
  [method |-> "POST", path |-> DepositPath, token |-> tok, amount |-> amount,
   body |-> << [amount |-> parseFloat(amount), mode |-> depositMode] >>]

\* fetchFunds of a render whose authToken is tok: sets error, loading and
\* issues the request; leaves every other state untouched
fetchFunds(tok) ==
  IF tok = ""
    THEN /\ error' = MissingTokenMsg
         /\ UNCHANGED <<loading, inflight>>
    ELSE /\ loading' = TRUE
         /\ error' = <<>>
         /\ inflight' = inflight (+) SetToBag({FetchRequest(tok)})

\* !depositAmount || parseFloat(depositAmount) <= 0
AmountRejected(amount) == amount = <<>> \/ LeqZero(parseFloat(amount))

\* depositFunds, were it to start without setSuccess('')
depositFunds_keepsSuccess(tok, amount) ==
  IF tok = ""
    THEN /\ error' = MissingTokenMsg
         /\ UNCHANGED <<loading, success, inflight>>
    ELSE IF AmountRejected(amount)
    THEN /\ error' = InvalidAmountMsg
         /\ UNCHANGED <<loading, success, inflight>>
    ELSE /\ loading' = TRUE
         /\ error' = <<>>
         /\ UNCHANGED success
         /\ inflight' = inflight (+) SetToBag({DepositRequest(tok, amount)})

\* depositFunds of a render whose authToken is tok and depositAmount is amount
depositFunds(tok, amount) ==
  IF tok = ""
    THEN /\ error' = MissingTokenMsg
         /\ UNCHANGED <<loading, success, inflight>>
    ELSE IF AmountRejected(amount)
    THEN /\ error' = InvalidAmountMsg
         /\ UNCHANGED <<loading, success, inflight>>
    ELSE /\ loading' = TRUE
         /\ error' = <<>>
         /\ success' = <<>>
         /\ inflight' = inflight (+) SetToBag({DepositRequest(tok, amount)})

\* the asynchronous work outstanding: requests in flight and pending timers
Pending == BagCardinality(inflight) + Len(timers)

\* room for one more request
CanIssue == Pending < MaxPending

Remove(s, i) == SubSeq(s, 1, i - 1) \o SubSeq(s, i + 1, Len(s))

----------------------------------------------------------------------------
(* User intents *)

\* handleTokenChange, were the effect to fire on the empty-to-non-empty edge
\* only
handleTokenChange_edgeOnly(v) ==
  /\ v # authToken
  /\ v # "" => CanIssue
  /\ authToken' = v
  /\ IF v # "" /\ authToken = ""
       THEN fetchFunds(v)
       ELSE UNCHANGED <<loading, error, inflight>>
  /\ ev' = [h |-> "tokenChange", value |-> v]
  /\ opened' = <<>>
  /\ UNCHANGED <<funds, depositAmount, success, timers>>

\* handleTokenChange, were the effect to run the previous render's fetchFunds
handleTokenChange_staleToken(v) ==
  /\ v # authToken
  /\ v # "" => CanIssue
  /\ authToken' = v
  /\ IF v # ""
       THEN fetchFunds(authToken)
       ELSE UNCHANGED <<loading, error, inflight>>
  /\ ev' = [h |-> "tokenChange", value |-> v]
  /\ opened' = <<>>
  /\ UNCHANGED <<funds, depositAmount, success, timers>>

\* the token input changes to v; the effect keyed on [authToken] then runs
\* with the new render's fetchFunds
handleTokenChange(v) ==
  /\ v # authToken
  /\ v # "" => CanIssue
  /\ authToken' = v
  /\ IF v # ""
       THEN fetchFunds(v)
       ELSE UNCHANGED <<loading, error, inflight>>
  /\ ev' = [h |-> "tokenChange", value |-> v]
  /\ opened' = <<>>
  /\ UNCHANGED <<funds, depositAmount, success, timers>>

handleAmountChange(v) ==
  /\ v # depositAmount
  /\ depositAmount' = v
  /\ ev' = [h |-> "amountChange", value |-> v]
  /\ opened' = <<>>
  /\ UNCHANGED <<funds, loading, error, success, authToken, inflight, timers>>

\* the Refresh button: onClick={fetchFunds}, disabled={loading}
ClickRefresh ==
  /\ ~loading
  /\ authToken # "" => CanIssue
  /\ fetchFunds(authToken)
  /\ ev' = [h |-> "clickRefresh"]
  /\ opened' = <<>>
  /\ UNCHANGED <<funds, depositAmount, success, authToken, timers>>

\* the deposit button: onClick={depositFunds}, disabled={loading}
ClickDeposit ==
  /\ ~loading
  /\ (authToken # "" /\ ~AmountRejected(depositAmount)) => CanIssue
  /\ depositFunds(authToken, depositAmount)
  /\ ev' = [h |-> "clickDeposit"]
  /\ opened' = <<>>
  /\ UNCHANGED <<funds, depositAmount, authToken, timers>>

----------------------------------------------------------------------------
(* Continuations after the awaits *)

\* fetchFunds, were its catch block to clear successMessage as well
FetchSettled_clearsSuccess(req, o) ==
  /\ IF o.kind = "ok"
       THEN /\ funds' = << ParseJson(FundsBodies[o.body]) >>
            /\ UNCHANGED <<error, success>>
       ELSE /\ error' = FetchFailedMsg(Raised(o))
            /\ success' = <<>>
            /\ UNCHANGED funds
  /\ loading' = FALSE
  /\ inflight' = inflight (-) SetToBag({req})
  /\ opened' = <<>>
  /\ UNCHANGED <<depositAmount, authToken, timers>>

\* fetchFunds, were it to merge the response into the previous snapshot
FetchSettled_merges(req, o) ==
  /\ IF o.kind = "ok"
       THEN /\ funds' =
                 LET new == ParseJson(FundsBodies[o.body])
                     old == IF funds = <<>> THEN <<>> ELSE funds[1]
                 IN  << [k \in (DOMAIN old) \cup (DOMAIN new) |->
                           IF k \in DOMAIN new THEN new[k] ELSE old[k]] >>
            /\ UNCHANGED error
       ELSE /\ error' = FetchFailedMsg(Raised(o))
            /\ UNCHANGED funds
  /\ loading' = FALSE
  /\ inflight' = inflight (-) SetToBag({req})
  /\ opened' = <<>>
  /\ UNCHANGED <<depositAmount, success, authToken, timers>>

\* fetchFunds, were its catch block to drop the snapshot
FetchSettled_clearsSnapshot(req, o) ==
  /\ IF o.kind = "ok"
       THEN /\ funds' = << ParseJson(FundsBodies[o.body]) >>
            /\ UNCHANGED error
       ELSE /\ error' = FetchFailedMsg(Raised(o))
            /\ funds' = <<>>
  /\ loading' = FALSE
  /\ inflight' = inflight (-) SetToBag({req})
  /\ opened' = <<>>
  /\ UNCHANGED <<depositAmount, success, authToken, timers>>

\* fetchFunds, were setLoading(false) to follow the try block instead of
\* standing in a finally
FetchSettled_noFinally(req, o) ==
  /\ IF o.kind = "ok"
       THEN /\ funds' = << ParseJson(FundsBodies[o.body]) >>
            /\ loading' = FALSE
            /\ UNCHANGED error
       ELSE /\ error' = FetchFailedMsg(Raised(o))
            /\ UNCHANGED <<funds, loading>>
  /\ inflight' = inflight (-) SetToBag({req})
  /\ opened' = <<>>
  /\ UNCHANGED <<depositAmount, success, authToken, timers>>

\* fetchFunds after its request req ended with outcome o
FetchSettled(req, o) ==
  /\ IF o.kind = "ok"
       THEN /\ funds' = << ParseJson(FundsBodies[o.body]) >>
            /\ UNCHANGED error
       ELSE /\ error' = FetchFailedMsg(Raised(o))
            /\ UNCHANGED funds
  /\ loading' = FALSE
  /\ inflight' = inflight (-) SetToBag({req})
  /\ opened' = <<>>
  /\ UNCHANGED <<depositAmount, success, authToken, timers>>

FetchResponse ==
  \E req \in BagToSet(inflight) : \E o \in Outcomes(FundsBodies) :
    /\ req.path = FetchPath
    /\ FetchSettled(req, o)
    /\ ev' = [h |-> "fetchResponse", req |-> req, outcome |-> o, old |-> funds]

RedirectTimer(req, url) ==
  [kind |-> "redirect", delay |-> RedirectDelay, url |-> url,
   token |-> req.token]

RefetchTimer(req) ==
  [kind |-> "refetch", delay |-> RefetchDelay, url |-> "",
   token |-> req.token]

\* depositFunds, were its catch block to reset the amount input
DepositSettled_clearsAmountOnFailure(req, o) ==
  LET url == DataUrl(ParseJson(DepositBodies[o.body]))
  IN
  /\ IF o.kind = "ok"
       THEN IF depositMode = "NB" /\ url # ""
              THEN /\ success' = RedirectingMsg
                   /\ timers' = Append(timers, RedirectTimer(req, url))
                   /\ UNCHANGED <<error, depositAmount>>
              ELSE /\ success' = DepositedMsg(req.amount)
                   /\ depositAmount' = <<>>
                   /\ timers' = Append(timers, RefetchTimer(req))
                   /\ UNCHANGED error
       ELSE /\ error' = DepositFailedMsg(Raised(o))
            /\ depositAmount' = <<>>
            /\ UNCHANGED <<success, timers>>
  /\ loading' = FALSE
  /\ inflight' = inflight (-) SetToBag({req})
  /\ opened' = <<>>
  /\ UNCHANGED <<funds, authToken>>

\* depositFunds, were it to copy the balance of the response into the
\* snapshot
DepositSettled_setsBalance(req, o) ==
  LET data == ParseJson(DepositBodies[o.body])
      url  == DataUrl(data)
      old  == IF funds = <<>> THEN <<>> ELSE funds[1]
  IN
  /\ IF o.kind = "ok"
       THEN /\ IF depositMode = "NB" /\ url # ""
                 THEN /\ success' = RedirectingMsg
                      /\ timers' = Append(timers, RedirectTimer(req, url))
                      /\ UNCHANGED <<error, depositAmount>>
                 ELSE /\ success' = DepositedMsg(req.amount)
                      /\ depositAmount' = <<>>
                      /\ timers' = Append(timers, RefetchTimer(req))
                      /\ UNCHANGED error
            /\ IF "balance" \in DOMAIN data
                 THEN funds' = << [k \in (DOMAIN old) \cup {"balance"} |->
                                     IF k = "balance" THEN data[k] ELSE old[k]] >>
                 ELSE UNCHANGED funds
       ELSE /\ error' = DepositFailedMsg(Raised(o))
            /\ UNCHANGED <<success, depositAmount, timers, funds>>
  /\ loading' = FALSE
  /\ inflight' = inflight (-) SetToBag({req})
  /\ opened' = <<>>
  /\ UNCHANGED authToken

\* depositFunds, were a success to clear errorMessage again
DepositSettled_clearsError(req, o) ==
  LET url == DataUrl(ParseJson(DepositBodies[o.body]))
  IN
  /\ IF o.kind = "ok"
       THEN IF depositMode = "NB" /\ url # ""
              THEN /\ success' = RedirectingMsg
                   /\ timers' = Append(timers, RedirectTimer(req, url))
                   /\ error' = <<>>
                   /\ UNCHANGED depositAmount
              ELSE /\ success' = DepositedMsg(req.amount)
                   /\ depositAmount' = <<>>
                   /\ timers' = Append(timers, RefetchTimer(req))
                   /\ error' = <<>>
       ELSE /\ error' = DepositFailedMsg(Raised(o))
            /\ UNCHANGED <<success, depositAmount, timers>>
  /\ loading' = FALSE
  /\ inflight' = inflight (-) SetToBag({req})
  /\ opened' = <<>>
  /\ UNCHANGED <<funds, authToken>>

\* depositFunds after its request req ended with outcome o
DepositSettled(req, o) ==
  LET url == DataUrl(ParseJson(DepositBodies[o.body]))
  IN
  /\ IF o.kind = "ok"
       THEN IF depositMode = "NB" /\ url # ""
              THEN /\ success' = RedirectingMsg
                   /\ timers' = Append(timers, RedirectTimer(req, url))
                   /\ UNCHANGED <<error, depositAmount>>
              ELSE /\ success' = DepositedMsg(req.amount)
                   /\ depositAmount' = <<>>
                   /\ timers' = Append(timers, RefetchTimer(req))
                   /\ UNCHANGED error
       ELSE /\ error' = DepositFailedMsg(Raised(o))
            /\ UNCHANGED <<success, depositAmount, timers>>
  /\ loading' = FALSE
  /\ inflight' = inflight (-) SetToBag({req})
  /\ opened' = <<>>
  /\ UNCHANGED <<funds, authToken>>

DepositResponse ==
  \E req \in BagToSet(inflight) : \E o \in Outcomes(DepositBodies) :
    /\ req.path = DepositPath
    /\ DepositSettled(req, o)
    /\ ev' = [h |-> "depositResponse", req |-> req, outcome |-> o]

----------------------------------------------------------------------------
(* Timers *)

\* timer i is due before every timer scheduled earlier than it
MayFire(i) == \A j \in 1..(i - 1) : timers[j].delay > timers[i].delay

\* the 1500 ms callback, were it to leave the amount input alone
RedirectFired_keepsAmount(i) ==
  /\ opened' = <<timers[i].url>>
  /\ success' = GatewayOpenedMsg
  /\ timers' = Remove(timers, i)
  /\ UNCHANGED <<funds, depositAmount, loading, error, authToken, inflight>>

\* the callback of the 1500 ms timer
RedirectFired(i) ==
  /\ opened' = <<timers[i].url>>
  /\ success' = GatewayOpenedMsg
  /\ depositAmount' = <<>>
  /\ timers' = Remove(timers, i)
  /\ UNCHANGED <<funds, loading, error, authToken, inflight>>

RedirectTimerFires ==
  \E i \in DOMAIN timers :
    /\ timers[i].kind = "redirect"
    /\ MayFire(i)
    /\ RedirectFired(i)
    /\ ev' = [h |-> "redirectTimer", timer |-> timers[i]]

\* the 2000 ms callback, were it to refetch without setSuccess('')
RefetchFired_keepsSuccess(i) ==
  /\ fetchFunds(timers[i].token)
  /\ timers' = Remove(timers, i)
  /\ opened' = <<>>
  /\ UNCHANGED <<funds, depositAmount, success, authToken>>

\* the callback of the 2000 ms timer: fetchFunds of the render that ran
\* depositFunds, then setSuccess('')
RefetchFired(i) ==
  /\ fetchFunds(timers[i].token)
  /\ success' = <<>>
  /\ timers' = Remove(timers, i)
  /\ opened' = <<>>
  /\ UNCHANGED <<funds, depositAmount, authToken>>

RefetchTimerFires ==
  \E i \in DOMAIN timers :
    /\ timers[i].kind = "refetch"
    /\ MayFire(i)
    /\ RefetchFired(i)
    /\ ev' = [h |-> "refetchTimer", timer |-> timers[i]]

----------------------------------------------------------------------------
TokenEdited == \E v \in Tokens : handleTokenChange(v)
AmountEdited == \E v \in Amounts : handleAmountChange(v)

Next ==
  \/ TokenEdited
  \/ AmountEdited
  \/ ClickRefresh
  \/ ClickDeposit
  \/ FetchResponse
  \/ DepositResponse
  \/ RedirectTimerFires
  \/ RefetchTimerFires

Spec == Init /\ [][Next]_vars

\* the component, with a network that ends the requests it is given
FairSpec == Spec /\ WF_vars(FetchResponse) /\ WF_vars(DepositResponse)

TypeOK ==
  /\ loading \in BOOLEAN
  /\ authToken \in Tokens
  /\ depositAmount \in Amounts
  /\ Pending <= MaxPending

----------------------------------------------------------------------------
(* Vocabulary of the properties *)

Clicks == {"clickRefresh", "clickDeposit"}
Responses == {"fetchResponse", "depositResponse"}

\* the step issues a request / issues none
IssuesRequest == BagCardinality(inflight') = BagCardinality(inflight) + 1
IssuesNothing == inflight' = inflight

\* the step issues exactly one GET /funds carrying tok, and nothing else
IssuesFetchWith(tok) ==
  LET r == [method |-> "GET", path |-> "/funds", token |-> tok,
            amount |-> <<>>, body |-> <<>>]
  IN  inflight' = inflight (+) SetToBag({r})

\* a decimal numeral: an optional sign, then digits and nothing else
IsNumeral(s) ==
  LET u == IF s # <<>> /\ Head(s) \in {"-", "+"} THEN Tail(s) ELSE s
  IN  u # <<>> /\ \A j \in DOMAIN u : u[j] \in Digits

\* an amount string that is empty, non-numeric, zero or negative
InvalidAmountString(s) ==
  s = <<>> \/ ~IsNumeral(s) \/ parseFloat(s).val <= 0

----------------------------------------------------------------------------
\* C1: in every state where the credential is the empty string, any
\* invocation of fetchFunds or depositFunds (from a button or from the 2000 ms
\* timer) issues no network call, sets errorMessage to "Please enter your
\* Bearer token first" and leaves the snapshot and the loading flag unchanged.
C1_EmptyTokenFailsFast ==
  [][ (authToken' = "" /\ ev'.h \in Clicks \cup {"refetchTimer"})
        => /\ IssuesNothing
           /\ error' = <<"Please enter your Bearer token first">>
           /\ funds' = funds
           /\ loading' = loading ]_vars

C3_StartClearsBoth ==
  [][ IssuesRequest => (loading' /\ error' = <<>> /\ success' = <<>>) ]_vars

\* C3 (amended): starting an operation that passes its preconditions sets
\* loading and clears errorMessage; a Deposit also clears successMessage,
\* while a Fetch started from the Refresh button or by the token effect leaves
\* successMessage as it was.
C3_StartClears ==
  [][ IssuesRequest
        => /\ loading' /\ error' = <<>>
           /\ ev'.h = "clickDeposit" => success' = <<>>
           /\ ev'.h \in {"clickRefresh", "tokenChange"} => success' = success
    ]_vars

\* a Fetch has just started while a success message stays on display
C3_Witness ==
  /\ ev.h = "clickRefresh" /\ loading /\ error = <<>>
  /\ success # <<>>
  /\ BagCardinality(inflight) > 0

\* an operation has just completed / has just failed its precondition
Failed(e) == e.h \in Responses /\ e.outcome.kind # "ok"
Succeeded(e) == e.h \in Responses /\ e.outcome.kind = "ok"

\* C4 (as claimed): the completion of an operation never leaves errorMessage
\* and successMessage both non-empty.
C4_NeverBoth ==
  ev.h \in Responses => (error = <<>> \/ success = <<>>)

\* C4 (amended): the completion of an operation writes at most one of the two
\* messages and leaves the other as it was: a failing operation (a failed
\* request or a precondition failure) sets errorMessage and does not touch
\* successMessage, and a succeeding operation does not touch errorMessage.
C4_CompletionWritesOne ==
  [][ /\ (Failed(ev') \/ (ev'.h \in Clicks /\ IssuesNothing))
          => (error' # <<>> /\ success' = success)
      /\ Succeeded(ev') => error' = error ]_vars

\* a failed operation has completed next to an earlier success message
C4_Witness ==
  Failed(ev) /\ error # <<>> /\ success # <<>>

C6_FetchOnFirstToken ==
  [][ (authToken = "" /\ authToken' # "")
        => (IssuesFetchWith(authToken') /\ loading') ]_vars

\* the token has just gone from empty to "abc" and the Fetch is in flight
C6_Witness ==
  /\ ev.h = "tokenChange" /\ authToken = "abc" /\ loading
  /\ BagToSet(inflight) =
       {[method |-> "GET", path |-> "/funds", token |-> "abc",
         amount |-> <<>>, body |-> <<>>]}
  /\ BagCardinality(inflight) = 1

\* the members of deposit body b carry a redirect URL
CarriesUrl(b) ==
  \E j \in DOMAIN DepositBodies[b] :
    DepositBodies[b][j].k = "data" /\ DepositBodies[b][j].v.url # ""

RedirectOutcome(e) ==
  e.h = "depositResponse" /\ e.outcome.kind = "ok" /\ CarriesUrl(e.outcome.body)

DirectOutcome(e) ==
  e.h = "depositResponse" /\ e.outcome.kind = "ok" /\ ~CarriesUrl(e.outcome.body)

\* C7: a successful Deposit whose response carries a redirect URL sets the
\* "redirecting" notice when the response is handled, without clearing the
\* amount input and without opening anything, and schedules one 1500 ms
\* timer; when that timer fires, the URL is opened once, the "gateway opened"
\* notice replaces the message and the amount input is empty; nothing but
\* that timer opens a URL.
C7_RedirectTwoNotices ==
  [][ /\ RedirectOutcome(ev')
          => /\ success' = <<"Redirecting to payment gateway...">>
             /\ depositAmount' = depositAmount
             /\ opened' = <<>>
             /\ Len(timers') = Len(timers) + 1
             /\ timers'[Len(timers')].kind = "redirect"
             /\ timers'[Len(timers')].delay = 1500
             /\ SubSeq(timers', 1, Len(timers)) = timers
      /\ ev'.h = "redirectTimer"
          => /\ ev'.timer \in {timers[i] : i \in DOMAIN timers}
             /\ Len(timers') = Len(timers) - 1
             /\ opened' = <<ev'.timer.url>>
             /\ ev'.timer.url # ""
             /\ success' =
                  <<"Payment gateway opened in new tab. Complete your payment there.">>
             /\ success' # <<"Redirecting to payment gateway...">>
             /\ depositAmount' = <<>>
      /\ ev'.h # "redirectTimer" => opened' = <<>> ]_vars

\* the 1500 ms timer has fired on an amount the user had left in the input
C7_Witness ==
  /\ ev.h = "redirectTimer"
  /\ opened = <<"https://pay.example/x">>
  /\ depositAmount = <<>>
  /\ success = <<"Payment gateway opened in new tab. Complete your payment there.">>

\* C8: a successful Deposit whose response carries no redirect URL clears
\* the amount input and sets the confirmation naming the submitted amount in
\* the step that handles the response, and schedules one 2000 ms timer; when
\* that timer fires, exactly one Fetch request is issued and successMessage
\* is cleared.
C8_DirectDeposit ==
  [][ /\ DirectOutcome(ev')
          => /\ depositAmount' = <<>>
             /\ success' = <<"Successfully deposited ₹">> \o ev'.req.amount
             /\ Len(timers') = Len(timers) + 1
             /\ timers'[Len(timers')].kind = "refetch"
             /\ timers'[Len(timers')].delay = 2000
      /\ ev'.h = "refetchTimer"
          => /\ Len(timers') = Len(timers) - 1
             /\ \E tok \in Tokens \ {""} : IssuesFetchWith(tok)
             /\ success' = <<>> ]_vars

\* the 2000 ms timer has fired: the message is gone and its Fetch is in flight
C8_Witness ==
  /\ ev.h = "refetchTimer"
  /\ success = <<>>
  /\ depositAmount = <<>>
  /\ \E r \in BagToSet(inflight) : r.path = "/funds"

\* the last member of the body that has key k
LastMember(members, k) ==
  LET js == {j \in DOMAIN members : members[j].k = k}
  IN  members[CHOOSE j \in js : \A i \in js : i <= j]

\* C9: after every successful Fetch the snapshot is exactly the parsed
\* response body: it has the fields of the response, with the values of the
\* response, and no other field, whatever the previous snapshot held.
C9_SnapshotIsResponse ==
  [][ (ev'.h = "fetchResponse" /\ ev'.outcome.kind = "ok")
        => LET members == FundsBodies[ev'.outcome.body]
               keys    == {members[j].k : j \in DOMAIN members}
           IN  /\ Len(funds') = 1
               /\ DOMAIN funds'[1] = keys
               /\ \A k \in keys : funds'[1][k] = LastMember(members, k).v
    ]_vars

\* a response without email has replaced a snapshot that had one
C9_Witness ==
  /\ ev.h = "fetchResponse" /\ ev.outcome.kind = "ok"
  /\ ev.old # <<>> /\ "email" \in DOMAIN ev.old[1]
  /\ funds # <<>> /\ "email" \notin DOMAIN funds[1]
  /\ funds[1]["balance"] = 500

\* the detail of a failed request, as the message shows it
Detail(o) ==
  IF o.kind = "status" THEN <<"HTTP error! status: ", o.status>>
                       ELSE o.err.message

\* C10: when a Fetch fails, errorMessage is "Failed to fetch funds: " plus
\* the error detail, and the snapshot is left as it was, null included.
C10_FetchFailureKeepsSnapshot ==
  [][ (ev'.h = "fetchResponse" /\ ev'.outcome.kind # "ok")
        => /\ error' = <<"Failed to fetch funds: ">> \o Detail(ev'.outcome)
           /\ funds' = funds ]_vars

\* a Fetch has failed on a snapshot that is kept
C10_Witness ==
  /\ ev.h = "fetchResponse" /\ ev.outcome.kind = "status"
  /\ error = <<"Failed to fetch funds: ", "HTTP error! status: ", "500">>
  /\ funds # <<>>

\* a Fetch has failed before any snapshot was held
C10_WitnessNull ==
  /\ ev.h = "fetchResponse" /\ ev.outcome.kind = "throw"
  /\ funds = <<>>

\* a Deposit has just failed: at a precondition, or when its request ended
DepositFailedAt(e) ==
  \/ e.h = "clickDeposit" /\ IssuesNothing
  \/ e.h = "depositResponse" /\ e.outcome.kind # "ok"

\* C11: when a Deposit fails at any stage (precondition, non-success status,
\* transport failure), the failing step sets errorMessage, leaves the amount
\* input as it was, schedules no delayed followup, and leaves the loading
\* flag false.
C11_DepositFailureFrame ==
  [][ DepositFailedAt(ev')
        => /\ error' # <<>>
           /\ ev'.h = "depositResponse"
                => error' = <<"Failed to deposit funds: ">> \o Detail(ev'.outcome)
           /\ depositAmount' = depositAmount
           /\ timers' = timers
           /\ loading' = FALSE ]_vars

\* a Deposit request has failed and the submitted amount is still in the input
C11_Witness ==
  /\ ev.h = "depositResponse" /\ ev.outcome.kind = "status"
  /\ depositAmount = <<"5","0">> /\ ev.req.amount = <<"5","0">>
  /\ error = <<"Failed to deposit funds: ", "HTTP error! status: ", "500">>
  /\ ~loading /\ timers = <<>>

\* C12: the snapshot is null until the first successful Fetch and is changed
\* only by a successful Fetch response: no Deposit step, failed operation,
\* precondition failure, token or amount edit, or timer firing changes it.
C12_SnapshotOnlyByFetch ==
  /\ funds = <<>>
  /\ [][ funds' # funds
           => (ev'.h = "fetchResponse" /\ ev'.outcome.kind = "ok") ]_vars

\* a Deposit response carrying balance 600 has left a snapshot with another
\* balance as it was
C12_Witness ==
  /\ ev.h = "depositResponse" /\ ev.outcome.kind = "ok"
  /\ "balance" \in {DepositBodies[ev.outcome.body][j].k :
                      j \in DOMAIN DepositBodies[ev.outcome.body]}
  /\ funds # <<>> /\ funds[1]["balance"] = 500

\* a request to path is in flight
InFlightAt(path) == \E r \in BagToSet(inflight) : r.path = path

\* the result a completion writes, by its outcome
ResultWritten(e) ==
  IF e.outcome.kind # "ok" THEN error' # <<>>
  ELSE IF e.h = "fetchResponse" THEN funds' # <<>>
  ELSE success' # <<>>

\* C13: within one operation that passes its preconditions, loading=true is
\* set when the request is issued and before any result; the result (snapshot,
\* errorMessage or successMessage) and loading=false are written when the
\* request of a started operation ends; and with a network that ends the
\* requests it is given, a Fetch in flight leads to a Fetch completion with
\* loading=false and a Deposit in flight to a Deposit completion with
\* loading=false, whatever the outcome.
C13_LoadingLifecycle ==
  /\ [][ /\ IssuesRequest => (loading' /\ funds' = funds /\ error' = <<>>)
         /\ ev'.h \in Responses
              => /\ CopiesIn(ev'.req, inflight) > 0
                 /\ CopiesIn(ev'.req, inflight') = CopiesIn(ev'.req, inflight) - 1
                 /\ ResultWritten(ev')
                 /\ loading' = FALSE ]_vars
  /\ InFlightAt(FetchPath) ~> (ev.h = "fetchResponse" /\ ~loading)
  /\ InFlightAt(DepositPath) ~> (ev.h = "depositResponse" /\ ~loading)

\* a started Deposit has ended with an exception and loading is false again
C13_Witness ==
  /\ ev.h = "depositResponse" /\ ev.outcome.kind = "throw"
  /\ ~loading /\ error # <<>>

\* the step completes the second of a Fetch and a Deposit that were in flight
\* together: the step before completed one of them while the other, the only
\* request still in flight, is the one completing now
SecondOfTwoCompletes ==
  /\ ev.h \in Responses
  /\ ev'.h \in Responses
  /\ BagCardinality(inflight) = 1
  /\ ev'.req.path # ev.req.path

\* the message an operation's own outcome amounts to
OwnError(e) ==
  IF e.outcome.kind = "ok" THEN <<>>
  ELSE IF e.h = "fetchResponse"
    THEN <<"Failed to fetch funds: ">> \o Detail(e.outcome)
    ELSE <<"Failed to deposit funds: ">> \o Detail(e.outcome)

OwnSuccess(e) ==
  IF RedirectOutcome(e) THEN <<"Redirecting to payment gateway...">>
  ELSE IF DirectOutcome(e) THEN <<"Successfully deposited ₹">> \o e.req.amount
  ELSE <<>>

\* C14 (as claimed): when a Fetch and a Deposit were in flight together, after
\* both have completed errorMessage and successMessage are exactly the outcome
\* of the one that completed last, with nothing left of the first.
C14_LastOutcomeOnly ==
  [][ SecondOfTwoCompletes
        => (error' = OwnError(ev') /\ success' = OwnSuccess(ev')) ]_vars

\* C14 (amended): when a Fetch and a Deposit were in flight together, the one
\* that completes last overwrites only the message it writes (errorMessage
\* when it fails, successMessage when it is a successful Deposit, neither
\* when it is a successful Fetch); the other message stays as the first
\* completion left it.
C14_LastWritesItsOwnField ==
  [][ SecondOfTwoCompletes
        => /\ error' = IF Failed(ev') THEN OwnError(ev') ELSE error
           /\ success' = IF Succeeded(ev') /\ ev'.h = "depositResponse"
                           THEN OwnSuccess(ev') ELSE success ]_vars

\* a Deposit has succeeded last, next to the error of the Fetch that failed
\* while the Deposit was in flight
C14_Witness ==
  /\ ev.h = "depositResponse" /\ ev.outcome.kind = "ok"
  /\ inflight = EmptyBag
  /\ error # <<>> /\ Head(error) = "Failed to fetch funds: "
  /\ success # <<>>

\* C15: the loading flag is true in every state in which at least one
\* network request (Fetch or Deposit) is still in flight.
C15_LoadingWhileInFlight ==
  inflight # EmptyBag => loading

\* the Deposit requests in flight
DepositsInFlight == {r \in BagToSet(inflight) : r.path = "/funds/deposit"}

\* C16: while a Deposit request is in flight the deposit button cannot submit
\* a second one: at most one Deposit request is in flight at any time.
C16_OneDepositInFlight ==
  /\ Cardinality(DepositsInFlight) <= 1
  /\ \A r \in DepositsInFlight : CopiesIn(r, inflight) = 1

\* C17: every network request is sent with the credential held at the moment
\* the request is issued, the delayed refetch after a direct Deposit included.
C17_RequestCarriesCurrentToken ==
  [][ IssuesRequest
        => \E r \in BagToSet(inflight') :
             /\ inflight' = inflight (+) SetToBag({r})
             /\ r.token = authToken' ]_vars

\* a timer fires, and it is the one scheduled first
FirstTimerFires ==
  /\ ev'.h \in {"redirectTimer", "refetchTimer"}
  /\ timers # <<>>
  /\ timers' = Tail(timers)

\* C18: the delayed followup of one Deposit affects only that Deposit's own
\* state: when the timer of an earlier Deposit fires right after a later
\* Deposit's successful response, the successMessage that response set stays;
\* and when it fires right after the user typed an amount (so after its own
\* Deposit's response), the typed amount stays.
C18_FollowupKeepsLaterState ==
  [][ /\ (FirstTimerFires /\ Succeeded(ev) /\ ev.h = "depositResponse"
            /\ Len(timers) = 2)
          => success' = success
      /\ (FirstTimerFires /\ ev.h = "amountChange" /\ ev.value # <<>>)
          => depositAmount' = depositAmount ]_vars

====
